---- MODULE Spec2Model ----
(***************************************************************************)
(* A model of the <range-group> multi-handle slider of src/src/range-group.ts *)
(* (the component defined in lines 1-598 of that file).                    *)
(*                                                                         *)
(* Arrays are functions over 0..N-1, as in the source, so that an index of *)
(* the model is an index of the code.  An absent value (null, undefined, a *)
(* missing attribute) is the empty sequence <<>> and a present value x is  *)
(* <<x>>.  All numbers are integers: the pointer positions offered to the  *)
(* handlers are the ones whose interpolated value is integral, and the     *)
(* slotted <input type="range"> elements keep the number written to them   *)
(* (their own sanitisation is the identity on the integers the component   *)
(* writes, String/Number being inverse on integers).                       *)
(***************************************************************************)
EXTENDS Integers, Sequences, FiniteSets, TLC

VARIABLES
    page,                   \* the host page the widget lives in (never changes)
    hostAttrs,              \* names of the attributes written on <range-group>
    min, max,               \* properties min, max
    stepBetween,            \* property stepBetween
    list,                   \* property list: id of a <datalist>, "" when unset
    _datalistOptions,       \* sequence of option values, in document order
    _inputs,                \* the slotted inputs, index -> element record
    _values,                \* index -> normalized value
    _previousInputValues,   \* snapshot carried by the last 'input' fired
    _previousChangeValues,  \* snapshot carried by the last 'change' fired
    _activeThumbIndex,      \* <<>> or <<index>>
    _pendingActivation,     \* <<>> or <<[indices, initialX]>>
    _containerRect,         \* <<>> or <<[left, width]>>
    connected,              \* isConnected: the element is in the document
    windowListeners,        \* the window events this element listens to
    emitted,                \* events dispatched by the last handler, in order
    lastOp                  \* the last handler that ran, with its arguments

vars == <<page, hostAttrs, min, max, stepBetween, list, _datalistOptions,
          _inputs, _values, _previousInputValues, _previousChangeValues,
          _activeThumbIndex, _pendingActivation, _containerRect, connected,
          windowListeners, emitted, lastOp>>

config == <<page, hostAttrs, min, max, stepBetween, list, _datalistOptions>>
interaction == <<_activeThumbIndex, _pendingActivation, _containerRect>>
snapshots == <<_previousInputValues, _previousChangeValues>>
mount == <<connected, windowListeners>>

----------------------------------------------------------------------------
(* Small helpers *)

None == <<>>
Some(x) == <<x>>
Abs(x) == IF x < 0 THEN -x ELSE x
MathMax(a, b) == IF a > b THEN a ELSE b
MathMin(a, b) == IF a < b THEN a ELSE b
MinOf(S) == CHOOSE x \in S : \A y \in S : x <= y
MaxOf(S) == CHOOSE x \in S : \A y \in S : x >= y
Range(s) == {s[i] : i \in DOMAIN s}
\* a JavaScript array literal as a function over 0..n-1
Arr(s) == [i \in 0..(Len(s) - 1) |-> s[i + 1]]

----------------------------------------------------------------------------------------------------------------------------------------------------------------------------------------------------
(* The host pages the widget is explored in.  A page fixes what the        *)
(* component cannot choose: the slotted inputs, the attributes written on  *)
(* the host, the datalists of the document, the layout, and which values   *)
(* its user and its scripts feed to the handlers.                          *)

LabMax == 2          \* largest value of the lab page's domain
RawMargin == 1       \* how far beyond the domain a raw written value may lie
PointerMargin == 1   \* how far outside the track the pointer may be, in px

Input(v, lo, hi) == [valueAttr |-> v, value |-> v, min |-> lo, max |-> hi, step |-> 0]

AllKeys == {"ArrowLeft", "ArrowRight", "ArrowUp", "ArrowDown", "Home", "End", "Tab"}

\* two handles over 0..LabMax, dragged, clicked and written by script
Lab ==
    [sources |-> <<Input(LabMax, None, None), Input(0, None, None)>>,
     hostAttrs |-> {},
     configs |-> {0} \X {LabMax} \X {0} \X {""},
     datalist |-> <<>>, reconfigures |-> FALSE, remounts |-> FALSE,
     width |-> 2 * LabMax,
     raws |-> (0 - RawMargin)..(LabMax + RawMargin), indices |-> 0..1,
     xs |-> (0 - PointerMargin)..(2 * LabMax + PointerMargin),
     clicks |-> (0 - PointerMargin)..(2 * LabMax + PointerMargin), grabs |-> 0..1,
     keys |-> {}, buttons |-> {0}]

\* two handles moved by the keyboard, with and without a datalist whose
\* options are unsorted and whose last option may lie beyond max
Keyboard ==
    [sources |-> <<Input(0, None, None), Input(2 * LabMax, None, None)>>,
     hostAttrs |-> {},
     configs |-> {0} \X {2 * LabMax - 1, 2 * LabMax} \X {0, 2} \X {"", "ticks"},
     datalist |-> <<LabMax, 0, 2 * LabMax>>, reconfigures |-> FALSE, remounts |-> FALSE,
     width |-> 2 * LabMax,
     raws |-> (0 - RawMargin)..(2 * LabMax + RawMargin), indices |-> 0..1,
     xs |-> {}, clicks |-> {}, grabs |-> {},
     keys |-> AllKeys, buttons |-> {0}]

\* three handles that start on the same value, with and without a datalist
\* whose options span less than two gaps
Trio ==
    [sources |-> <<Input(1, None, None), Input(1, None, None), Input(1, None, None)>>,
     hostAttrs |-> {},
     configs |-> {0} \X {LabMax + 1} \X {0, 1} \X {"", "ticks"},
     datalist |-> <<0, 1>>, reconfigures |-> FALSE, remounts |-> FALSE,
     width |-> LabMax + 1,
     raws |-> 0..(LabMax + 1), indices |-> 0..2,
     xs |-> {}, clicks |-> 0..(LabMax + 1), grabs |-> {},
     keys |-> {}, buttons |-> {0}]

\* two handles whose inputs carry their own min and max attributes, with and
\* without a datalist; the script also calls the setter with the indices next
\* to the valid ones
Bounds ==
    [sources |-> <<Input(1, None, Some(LabMax)), Input(LabMax, Some(1), None)>>,
     hostAttrs |-> {},
     configs |-> {0} \X {LabMax + 1} \X {0, 1} \X {"", "ticks"},
     datalist |-> <<0, 1>>, reconfigures |-> FALSE, remounts |-> FALSE,
     width |-> LabMax + 1,
     raws |-> (0 - RawMargin)..(LabMax + 1 + RawMargin), indices |-> (0 - 1)..2,
     xs |-> {}, clicks |-> {}, grabs |-> {},
     keys |-> {"Home", "End"}, buttons |-> {0}]

\* a page whose script changes min, max, stepBetween and list; the host
\* carries min and max attributes, the domain is one of [0,1], [0,3], [2,3]
Admin ==
    [sources |-> <<Input(1, None, None), Input(2, None, None)>>,
     hostAttrs |-> {"min", "max"},
     configs |-> {<<d[1], d[2], st, id>> :
                    d \in {<<0, 1>>, <<0, 3>>, <<2, 3>>}, st \in {0, 1},
                    id \in {"", "ticks", "gone"}},
     datalist |-> <<0, 2>>, reconfigures |-> TRUE, remounts |-> FALSE,
     width |-> 3,
     raws |-> 0..3, indices |-> 0..1,
     xs |-> {}, clicks |-> {}, grabs |-> {},
     keys |-> {}, buttons |-> {0}]

\* the page of the documented scenarios: domain [0,100], inputs at 20 and 80;
\* its script also takes the widget out of the document and puts it back
Demo ==
    [sources |-> <<Input(20, None, None), Input(80, None, None)>>,
     hostAttrs |-> {"min", "max"},
     configs |-> {<<0, 100, 0, "">>, <<0, 100, 10, "">>, <<0, 100, 0, "ticks">>},
     datalist |-> <<0, 25, 50, 75, 100>>, reconfigures |-> FALSE, remounts |-> TRUE,
     width |-> 20,
     raws |-> {25, 80}, indices |-> {1},
     xs |-> {12}, clicks |-> {11}, grabs |-> {0},
     keys |-> {}, buttons |-> {0}]

\* the demo's inputs on its tick set, stepped with the arrow keys
Stops ==
    [sources |-> <<Input(20, None, None), Input(80, None, None)>>,
     hostAttrs |-> {"min", "max"},
     configs |-> {<<0, 100, 0, "ticks">>, <<0, 100, 25, "ticks">>},
     datalist |-> <<0, 25, 50, 75, 100>>, reconfigures |-> FALSE, remounts |-> FALSE,
     width |-> 20,
     raws |-> {40}, indices |-> 0..1,
     xs |-> {}, clicks |-> {}, grabs |-> {},
     keys |-> {"ArrowLeft", "ArrowRight", "End"}, buttons |-> {0}]

\* the lab's inputs under a user who also presses the secondary button and
\* keys the widget does not handle
Desk ==
    [sources |-> <<Input(LabMax, None, None), Input(0, None, None)>>,
     hostAttrs |-> {},
     configs |-> {0} \X {LabMax} \X {0} \X {""},
     datalist |-> <<>>, reconfigures |-> FALSE, remounts |-> FALSE,
     width |-> 2 * LabMax,
     raws |-> {}, indices |-> {},
     xs |-> {0, 2 * LabMax}, clicks |-> {2 * LabMax}, grabs |-> 0..1,
     keys |-> {"Home", "End", "Tab"}, buttons |-> {0, 2}]

\* a datalist on a widget whose first input has a max of its own that is no
\* option of the datalist
Fence ==
    [sources |-> <<Input(0, None, Some(LabMax - 1)), Input(LabMax, None, None)>>,
     hostAttrs |-> {},
     configs |-> {0} \X {LabMax} \X {0} \X {"ticks"},
     datalist |-> <<LabMax, 0>>, reconfigures |-> FALSE, remounts |-> FALSE,
     width |-> LabMax,
     raws |-> 0..LabMax, indices |-> 0..1,
     xs |-> {}, clicks |-> {}, grabs |-> {},
     keys |-> {}, buttons |-> {0}]

\* the README's programmatic-API page: a "set values" button over two inputs
Api ==
    [sources |-> <<Input(20, None, None), Input(80, None, None)>>,
     hostAttrs |-> {"min", "max"},
     configs |-> {0} \X {100} \X {0} \X {""},
     datalist |-> <<>>, reconfigures |-> FALSE, remounts |-> FALSE,
     width |-> 20,
     raws |-> {25, 80}, indices |-> {},
     xs |-> {}, clicks |-> {}, grabs |-> {},
     keys |-> {}, buttons |-> {0}]

PageDef(p) ==
    CASE p = "lab" -> Lab
      [] p = "keyboard" -> Keyboard
      [] p = "trio" -> Trio
      [] p = "bounds" -> Bounds
      [] p = "admin" -> Admin
      [] p = "demo" -> Demo
      [] p = "stops" -> Stops
      [] p = "desk" -> Desk
      [] p = "fence" -> Fence
      [] p = "api" -> Api

Pages == {"lab", "keyboard", "trio", "bounds", "admin", "demo", "stops", "desk", "fence", "api"}

\* the slotted <input type="range"> elements of the page, in document order
PageSources(p) == PageDef(p).sources
\* the attributes written on <range-group>
PageHostAttrs(p) == PageDef(p).hostAttrs

\* document.getElementById(id) restricted to <datalist> elements: the option
\* values in document order, or None when the id does not resolve
Document(p, id) == IF id = "ticks" THEN Some(PageDef(p).datalist) ELSE None

\* the values <<min, max, stepBetween, list>> the page gives the properties,
\* initially and (on the pages whose script reconfigures the widget) later
PageConfigs(p) == PageDef(p).configs
PageMins(p) == {c[1] : c \in PageConfigs(p)}
PageMaxs(p) == {c[2] : c \in PageConfigs(p)}
PageSteps(p) == {c[3] : c \in PageConfigs(p)}
PageLists(p) == {c[4] : c \in PageConfigs(p)}
Reconfigures(p) == PageDef(p).reconfigures
\* pages that get detached from and attached to the document
Remounts(p) == PageDef(p).remounts

\* getBoundingClientRect() of the .container element
LayoutRect(p) == [left |-> 0, width |-> PageDef(p).width]

\* the inputs offered to the handlers
RawValues(p) == PageDef(p).raws
ClientXs(p) == PageDef(p).xs
ClickXs(p) == PageDef(p).clicks
\* the thumbs the page's user presses
Grabs(p) == PageDef(p).grabs
Keys(p) == PageDef(p).keys
Buttons(p) == PageDef(p).buttons
Indices(p) == PageDef(p).indices
\* the values the "set values" button draws, on a page whose script calls the
\* setter through the button only
ButtonValues(p) == IF PageDef(p).indices = {} THEN PageDef(p).raws ELSE {}
\* pages whose user drags thumbs
UsesPointer(p) == PageDef(p).grabs # {}

----------------
(* Array helpers, as the source uses them *)

\* Array.prototype.sort with a numeric comparator on keys[i], the key of
\* element arr[i]: stable
SortBy(arr, keys) ==
    LET rank(i) == Cardinality({j \in DOMAIN arr : keys[j] < keys[i]})
                 + Cardinality({j \in DOMAIN arr : j < i /\ keys[j] = keys[i]})
    IN [r \in DOMAIN arr |-> arr[CHOOSE i \in DOMAIN arr : rank(i) = r]]

\* Array.prototype.find: first element passing the test, else undefined;
\* passes[i] is the outcome of the test on arr[i]
Find(arr, passes) ==
    LET hits == {i \in DOMAIN arr : passes[i]}
    IN IF hits = {} THEN None ELSE Some(arr[MinOf(hits)])

\* [...arr].reverse().find(test): last element passing the test
FindLast(arr, passes) ==
    LET hits == {i \in DOMAIN arr : passes[i]}
    IN IF hits = {} THEN None ELSE Some(arr[MaxOf(hits)])

\* Array.prototype.indexOf
IndexOf(arr, x) ==
    LET hits == {i \in DOMAIN arr : arr[i] = x}
    IN IF hits = {} THEN -1 ELSE MinOf(hits)

shallowEqual(arr1, arr2) ==
    /\ DOMAIN arr1 = DOMAIN arr2
    /\ \A i \in DOMAIN arr1 : arr1[i] = arr2[i]

----------------------------------------------------------------------------
(* Discrete domain *)

\* this.list && this._datalistOptions.length > 0
HasTicks == list # "" /\ Len(_datalistOptions) > 0

\* this._datalistOptions.map(opt => Number(opt.value)).sort((a, b) => a - b)
sortedValues == SortBy(Arr(_datalistOptions), Arr(_datalistOptions))

RECURSIVE SnapReduce(_, _, _, _)
SnapReduce(validValues, k, prev, value) ==
    IF k > Len(validValues) THEN prev
    ELSE LET curr == validValues[k]
         IN SnapReduce(validValues, k + 1,
                       IF Abs(curr - value) < Abs(prev - value) THEN curr ELSE prev,
                       value)

\* mutant: the reduce runs over the sorted values, the lower tick wins a tie
_snapToDataList_sorted(value) ==
    IF list = "" \/ Len(_datalistOptions) = 0 THEN value
    ELSE MinOf({t \in Range(_datalistOptions) :
                  \A u \in Range(_datalistOptions) : Abs(t - value) <= Abs(u - value)})

_snapToDataList(value) ==
    IF list = "" \/ Len(_datalistOptions) = 0 THEN value
    ELSE SnapReduce(_datalistOptions, 2, _datalistOptions[1], value)

----------------------------------------------------------------------------
(* Value normalizer *)

thumbMin(input) == MathMax(min, IF input.min # None THEN input.min[1] ELSE min)
\* mutant: the clamp stops at the domain's max, not at the input's own
thumbMax_domain(input) == max

thumbMax(input) == MathMin(max, IF input.max # None THEN input.max[1] ELSE max)

\* mutant: where no tick satisfies a neighbour bound the value is set to the
\* bound itself, as in the branch without ticks
_normalizeValue_pushing(value, index, ins) ==
    IF index \notin DOMAIN ins THEN value
    ELSE
    LET input == ins[index]
        snapped == IF HasTicks THEN _snapToDataList(value) ELSE value
        step == stepBetween
        afterPrev ==
            IF (index - 1) \in DOMAIN ins
            THEN LET minAllowed == ins[index - 1].value + step
                     found == Find(sortedValues,
                                   [i \in DOMAIN sortedValues |-> sortedValues[i] >= minAllowed])
                 IN IF snapped < minAllowed
                    THEN IF HasTicks
                         THEN (IF found # None THEN found[1] ELSE minAllowed)
                         ELSE minAllowed
                    ELSE snapped
            ELSE snapped
        afterNext ==
            IF (index + 1) \in DOMAIN ins
            THEN LET maxAllowed == ins[index + 1].value - step
                     found == FindLast(sortedValues,
                                       [i \in DOMAIN sortedValues |-> sortedValues[i] <= maxAllowed])
                 IN IF afterPrev > maxAllowed
                    THEN IF HasTicks
                         THEN (IF found # None THEN found[1] ELSE maxAllowed)
                         ELSE maxAllowed
                    ELSE afterPrev
            ELSE afterPrev
    IN MathMax(thumbMin(input), MathMin(thumbMax(input), afterNext))

\* _normalizeValue(value, index) evaluated against the inputs `ins`
_normalizeValue(value, index, ins) ==
    IF index \notin DOMAIN ins THEN value
    ELSE
    LET input == ins[index]
        snapped == IF HasTicks THEN _snapToDataList(value) ELSE value
        step == stepBetween
        afterPrev ==
            IF (index - 1) \in DOMAIN ins
            THEN LET minAllowed == ins[index - 1].value + step
                     found == Find(sortedValues,
                                   [i \in DOMAIN sortedValues |-> sortedValues[i] >= minAllowed])
                 IN IF snapped < minAllowed
                    THEN IF HasTicks
                         THEN (IF found # None THEN found[1] ELSE snapped)
                         ELSE minAllowed
                    ELSE snapped
            ELSE snapped
        afterNext ==
            IF (index + 1) \in DOMAIN ins
            THEN LET maxAllowed == ins[index + 1].value - step
                     found == FindLast(sortedValues,
                                       [i \in DOMAIN sortedValues |-> sortedValues[i] <= maxAllowed])
                 IN IF afterPrev > maxAllowed
                    THEN IF HasTicks
                         THEN (IF found # None THEN found[1] ELSE afterPrev)
                         ELSE maxAllowed
                    ELSE afterPrev
            ELSE afterPrev
    IN MathMax(thumbMin(input), MathMin(thumbMax(input), afterNext))

\* the array _updateValues() stores in _values
_updateValues(ins) == [index \in DOMAIN ins |-> _normalizeValue(ins[index].value, index, ins)]

\* input.value = String(v) on an <input type="range">: the element keeps the
\* number within its own min and max (0 and 100 where the attribute is absent)
Sanitize(input, v) ==
    LET lo == IF input.min # None THEN input.min[1] ELSE 0
        hi == IF input.max # None THEN input.max[1] ELSE 100
    IN IF v < lo THEN lo ELSE IF hi >= lo /\ v > hi THEN hi ELSE v

\* the inputs after setRangeValue(index, value) assigned input.value
WriteInput(ins, index, value) ==
    [ins EXCEPT ![index].value = Sanitize(ins[index], _normalizeValue(value, index, ins))]

\* the array the sort of _initializeInputs() leaves: ascending value attribute
sortedInputs(ins) == SortBy(ins, [i \in DOMAIN ins |-> ins[i].valueAttr])

\* _initializeInputs(): default the bounds from the host's attributes, reset
\* each value to its attribute. this._inputs is the getter of
\* @queryAssignedElements, which builds a new array of the slotted inputs, in
\* document order, on every access: the sort orders an array that no later
\* access sees, and the forEach and every later this._inputs[index] go by
\* document order.
_initializeInputs(ins) ==
    LET bounded(input) ==
          [input EXCEPT
             !.min = IF input.min = None /\ "min" \in hostAttrs THEN Some(min) ELSE @,
             !.max = IF input.max = None /\ "max" \in hostAttrs THEN Some(max) ELSE @]
    IN [i \in DOMAIN ins |->
          [bounded(ins[i]) EXCEPT
             !.value = Sanitize(bounded(ins[i]), ins[i].valueAttr)]]

\* _parseDatalist(): the options after the lookup of `id`
_parseDatalist(id, current) ==
    IF id = "" THEN <<>>
    ELSE IF Document(page, id) # None THEN Document(page, id)[1]
    ELSE current

----------------------------------------------------------------------------
(* Notifications *)

\* _dispatch(name): does the event fire, given the values and the snapshot
\* of its class
\* mutant: the equality check is dropped, the event always fires
ShouldDispatch_always(vals, previous) == TRUE

ShouldDispatch(vals, previous) == ~shallowEqual(vals, previous)

\* mutant: the event fires on the same test, the snapshot of its class is not
\* refreshed
_dispatch_noSnapshot(vals, wantInput, wantChange) ==
    LET fireInput == wantInput /\ ShouldDispatch(vals, _previousInputValues)
        fireChange == wantChange /\ ShouldDispatch(vals, _previousChangeValues)
    IN /\ UNCHANGED <<_previousInputValues, _previousChangeValues>>
       /\ emitted' = (IF fireInput THEN <<"input">> ELSE <<>>)
                     \o (IF fireChange THEN <<"change">> ELSE <<>>)

\* _dispatch("input") then _dispatch("change") on the values `vals`; which
\* of the two are requested is given by wantInput / wantChange
_dispatch(vals, wantInput, wantChange) ==
    LET fireInput == wantInput /\ ShouldDispatch(vals, _previousInputValues)
        fireChange == wantChange /\ ShouldDispatch(vals, _previousChangeValues)
    IN /\ _previousInputValues' = IF fireInput THEN vals ELSE _previousInputValues
       /\ _previousChangeValues' = IF fireChange THEN vals ELSE _previousChangeValues
       /\ emitted' = (IF fireInput THEN <<"input">> ELSE <<>>)
                     \o (IF fireChange THEN <<"change">> ELSE <<>>)

Op(name, index, key) == [op |-> name, index |-> index, key |-> key]

----------------------------------------------------------------------------
(* Pointer geometry *)

\* (e.clientX - rect.left) clamped to the track, in pixels
Offset(clientX, rect) == MathMax(0, MathMin(rect.width, clientX - rect.left))

\* the interpolated value is an integer at this position
Integral(clientX, rect) == (Offset(clientX, rect) * (max - min)) % rect.width = 0

\* this.min + percent * (this.max - this.min)
PointerValue(clientX, rect) ==
    min + (Offset(clientX, rect) * (max - min)) \div rect.width

\* the pixel at which thumb `index` is drawn (_valueToPercent of its value)
ThumbX(index) ==
    LET rect == LayoutRect(page)
    IN IF max - min = 0 THEN rect.left
       ELSE rect.left + ((_values[index] - min) * rect.width) \div (max - min)

\* mutant: the reduce keeps the pressed thumb only, an overlap is never seen
overlappingIndices_self(thumbIndex) == {thumbIndex}

\* indices whose value lies within 0.001 of the pressed thumb's value
overlappingIndices(thumbIndex) ==
    {i \in DOMAIN _values : Abs(_values[i] - _values[thumbIndex]) < 1}

\* the reduce of the track click: closest value, first index on ties
RECURSIVE ClosestReduce(_, _, _)
ClosestReduce(closestIndex, currentIndex, value) ==
    IF currentIndex \notin DOMAIN _values THEN closestIndex
    ELSE ClosestReduce(
            IF Abs(_values[currentIndex] - value) < Abs(_values[closestIndex] - value)
            THEN currentIndex ELSE closestIndex,
            currentIndex + 1, value)

\* mutant: the comparison of the reduce is reversed (farthest thumb wins)
closestThumb_reversed(value) ==
    CHOOSE k \in DOMAIN _values :
        /\ \A j \in DOMAIN _values : Abs(_values[j] - value) <= Abs(_values[k] - value)
        /\ \A j \in DOMAIN _values :
              j < k => Abs(_values[j] - value) < Abs(_values[k] - value)

\* mutant: the reduce replaces the closest thumb also on equal distance
closestThumb_lastOnTies(value) ==
    CHOOSE k \in DOMAIN _values :
        /\ \A j \in DOMAIN _values : Abs(_values[k] - value) <= Abs(_values[j] - value)
        /\ \A j \in DOMAIN _values :
              j > k => Abs(_values[j] - value) > Abs(_values[k] - value)

closestThumb(value) == ClosestReduce(0, 0, value)

----------------------------------------------------------------------------
(* Public API *)

\* getRangeInput(index): the input, or undefined
getRangeInput(index) == IF index \in DOMAIN _inputs THEN Some(_inputs[index]) ELSE None

\* mutant: an index past either end is taken for the nearest handle
setRangeValue_nearest(index, value) ==
    LET k == MathMax(0, MathMin(index, Cardinality(DOMAIN _inputs) - 1))
    IN /\ _inputs' = WriteInput(_inputs, k, value)
       /\ _values' = _updateValues(_inputs')
       /\ emitted' = <<>>
       /\ lastOp' = Op("setRangeValue", index, "")
       /\ UNCHANGED <<config, interaction, snapshots, mount>>

\* mutant: the setter announces what it stored, as a track click does
setRangeValue_notifying(index, value) ==
    /\ IF index \in DOMAIN _inputs
       THEN /\ _inputs' = WriteInput(_inputs, index, value)
            /\ _values' = _updateValues(_inputs')
       ELSE UNCHANGED <<_inputs, _values>>
    /\ _dispatch(_values', TRUE, TRUE)
    /\ lastOp' = Op("setRangeValue", index, "")
    /\ UNCHANGED <<config, interaction, mount>>

\* setRangeValue(index, value), called by the page's script
setRangeValue(index, value) ==
    /\ IF index \in DOMAIN _inputs
       THEN /\ _inputs' = WriteInput(_inputs, index, value)
            /\ _values' = _updateValues(_inputs')
       ELSE UNCHANGED <<_inputs, _values>>
    /\ emitted' = <<>>
    /\ lastOp' = Op("setRangeValue", index, "")
    /\ UNCHANGED <<config, interaction, snapshots, mount>>

\* the click handler of the page's "set values" button:
\* setRangeValue(0, Math.min(val1, val2)); setRangeValue(1, Math.max(val1, val2))
setValuesBtnClick(val1, val2) ==
    LET first == IF 0 \in DOMAIN _inputs
                 THEN WriteInput(_inputs, 0, MathMin(val1, val2)) ELSE _inputs
        second == IF 1 \in DOMAIN first
                  THEN WriteInput(first, 1, MathMax(val1, val2)) ELSE first
    IN /\ _inputs' = second
       /\ _values' = IF DOMAIN _inputs = {} THEN _values ELSE _updateValues(second)
       /\ emitted' = <<>>
       /\ lastOp' = Op("setValuesBtn", -1, "")
       /\ UNCHANGED <<config, interaction, snapshots, mount>>

----------------------------------------------------------------------------
(* Pointer handlers *)

\* mutant: the handler does not look at e.button
PointerDownThumb_anyButton(button, thumbIndex, clientX) ==
    /\ connected
    /\ thumbIndex \in DOMAIN _values
    /\ lastOp' = Op("pointerDownThumb", thumbIndex, IF button = 0 THEN "" ELSE "secondary")
    /\ emitted' = <<>>
    /\ _containerRect' = Some(LayoutRect(page))
    /\ IF Cardinality(overlappingIndices(thumbIndex)) > 1
       THEN /\ _pendingActivation' =
                  Some([indices |-> overlappingIndices(thumbIndex),
                        initialX |-> clientX])
            /\ _activeThumbIndex' = None
       ELSE /\ _activeThumbIndex' = Some(thumbIndex)
            /\ UNCHANGED _pendingActivation
    /\ UNCHANGED <<config, _inputs, _values, snapshots, mount>>

\* _handleContainerPointerDown with e.target a thumb
PointerDownThumb(button, thumbIndex, clientX) ==
    /\ connected
    /\ thumbIndex \in DOMAIN _values
    /\ lastOp' = Op("pointerDownThumb", thumbIndex, IF button = 0 THEN "" ELSE "secondary")
    /\ emitted' = <<>>
    /\ IF button # 0
       THEN UNCHANGED interaction
       ELSE /\ _containerRect' = Some(LayoutRect(page))
            /\ IF Cardinality(overlappingIndices(thumbIndex)) > 1
               THEN /\ _pendingActivation' =
                          Some([indices |-> overlappingIndices(thumbIndex),
                                initialX |-> clientX])
                    /\ _activeThumbIndex' = None
               ELSE /\ _activeThumbIndex' = Some(thumbIndex)
                    /\ UNCHANGED _pendingActivation
    /\ UNCHANGED <<config, _inputs, _values, snapshots, mount>>

\* mutant: the track click also makes the thumb it moved the active one
PointerDownTrack_dragging(button, clientX) ==
    /\ connected
    /\ button = 0
    /\ DOMAIN _values # {}
    /\ Integral(clientX, LayoutRect(page))
    /\ LET value == PointerValue(clientX, LayoutRect(page))
           thumbIndex == closestThumb(value)
       IN /\ lastOp' = Op("pointerDownTrack", thumbIndex, "")
          /\ _inputs' = WriteInput(_inputs, thumbIndex, value)
          /\ _values' = _updateValues(_inputs')
          /\ _activeThumbIndex' = Some(thumbIndex)
    /\ _dispatch(_values', TRUE, TRUE)
    /\ _containerRect' = Some(LayoutRect(page))
    /\ UNCHANGED <<config, _pendingActivation, mount>>

\* _handleContainerPointerDown with e.target the track
PointerDownTrack(button, clientX) ==
    /\ connected
    /\ lastOp' = Op("pointerDownTrack",
                    IF button = 0 /\ DOMAIN _values # {}
                    THEN closestThumb(PointerValue(clientX, LayoutRect(page))) ELSE -1,
                    IF button = 0 THEN "" ELSE "secondary")
    /\ IF button # 0
       THEN UNCHANGED <<interaction, _inputs, _values, snapshots>> /\ emitted' = <<>>
       ELSE /\ Integral(clientX, LayoutRect(page))
            /\ _containerRect' = Some(LayoutRect(page))
            /\ UNCHANGED <<_activeThumbIndex, _pendingActivation>>
            /\ IF DOMAIN _values = {}
               THEN UNCHANGED <<_inputs, _values, snapshots>> /\ emitted' = <<>>
               ELSE LET value == PointerValue(clientX, LayoutRect(page))
                        thumbIndex == closestThumb(value)
                    IN /\ IF thumbIndex \in DOMAIN _inputs
                          THEN /\ _inputs' = WriteInput(_inputs, thumbIndex, value)
                               /\ _values' = _updateValues(_inputs')
                          ELSE UNCHANGED <<_inputs, _values>>
                       /\ _dispatch(_values', TRUE, TRUE)
    /\ UNCHANGED <<config, mount>>

\* _handlePointerMove
PointerMove(clientX) ==
    /\ "pointermove" \in windowListeners
    /\ LET dx == IF _pendingActivation # None
                 THEN clientX - _pendingActivation[1].initialX ELSE 0
           resolve == _pendingActivation # None /\ Abs(dx) > 2
           active == IF resolve
                     THEN Some(IF dx > 0 THEN MaxOf(_pendingActivation[1].indices)
                                         ELSE MinOf(_pendingActivation[1].indices))
                     ELSE _activeThumbIndex
       IN /\ _activeThumbIndex' = active
          /\ _pendingActivation' = IF resolve THEN None ELSE _pendingActivation
          /\ lastOp' = Op("pointerMove", IF active # None THEN active[1] ELSE -1,
                          IF resolve THEN (IF dx > 0 THEN "right" ELSE "left") ELSE "")
          /\ IF active = None \/ _containerRect = None
             THEN UNCHANGED <<_inputs, _values, snapshots>> /\ emitted' = <<>>
             ELSE /\ Integral(clientX, _containerRect[1])
                  /\ LET value == PointerValue(clientX, _containerRect[1])
                     IN IF active[1] \in DOMAIN _inputs
                        THEN /\ _inputs' = WriteInput(_inputs, active[1], value)
                             /\ _values' = _updateValues(_inputs')
                        ELSE UNCHANGED <<_inputs, _values>>
                  /\ _dispatch(_values', TRUE, FALSE)
    /\ UNCHANGED <<config, _containerRect, mount>>

\* mutant: the pointer-up dispatches 'change' whether or not a session was open
PointerUp_always ==
    /\ "pointerup" \in windowListeners
    /\ UsesPointer(page)
    /\ _dispatch(_values, FALSE, TRUE)
    /\ _activeThumbIndex' = None
    /\ _pendingActivation' = None
    /\ lastOp' = Op("pointerUp", -1,
                    IF _activeThumbIndex # None \/ _pendingActivation # None
                    THEN "session" ELSE "")
    /\ UNCHANGED <<config, _inputs, _values, _containerRect, mount>>

\* _handlePointerUp
PointerUp ==
    /\ "pointerup" \in windowListeners
    /\ UsesPointer(page)
    /\ IF _activeThumbIndex # None \/ _pendingActivation # None
       THEN _dispatch(_values, FALSE, TRUE)
       ELSE UNCHANGED snapshots /\ emitted' = <<>>
    /\ _activeThumbIndex' = None
    /\ _pendingActivation' = None
    /\ lastOp' = Op("pointerUp", -1,
                    IF _activeThumbIndex # None \/ _pendingActivation # None
                    THEN "session" ELSE "")
    /\ UNCHANGED <<config, _inputs, _values, _containerRect, mount>>

----------------------------------------------------------------------------
(* Keyboard handler *)

\* mutant: Home takes max and End takes min
KeyCandidate_swapped(key, input) ==
    IF key = "Home" THEN max ELSE IF key = "End" THEN min ELSE input.value

\* the candidate _handleKeyDown computes for an arrow, Home or End key
KeyCandidate(key, input) ==
    LET step == IF input.step = 0 THEN 1 ELSE input.step
        current == input.value
        currentIndex == IndexOf(sortedValues, current)
        last == Len(_datalistOptions) - 1
        arrow ==
            IF HasTicks
            THEN IF key \in {"ArrowLeft", "ArrowDown"}
                 THEN sortedValues[MathMax(0, currentIndex - 1)]
                 ELSE IF key \in {"ArrowRight", "ArrowUp"}
                 THEN sortedValues[MathMin(last, currentIndex + 1)]
                 ELSE current
            ELSE IF key \in {"ArrowLeft", "ArrowDown"} THEN current - step
                 ELSE IF key \in {"ArrowRight", "ArrowUp"} THEN current + step
                 ELSE current
    IN IF key = "Home" THEN min ELSE IF key = "End" THEN max ELSE arrow

\* mutant: the handler does not return on the other keys
KeyDown_anyKey(key, index) ==
    /\ connected
    /\ index \in DOMAIN _values
    /\ lastOp' = Op("keyDown", index, key)
    /\ IF index \notin DOMAIN _inputs
       THEN UNCHANGED <<_inputs, _values, snapshots>> /\ emitted' = <<>>
       ELSE /\ _inputs' = WriteInput(_inputs, index, KeyCandidate(key, _inputs[index]))
            /\ _values' = _updateValues(_inputs')
            /\ _dispatch(_values', TRUE, TRUE)
    /\ UNCHANGED <<config, interaction, mount>>

\* _handleKeyDown(e, index) on the focused thumb `index`
KeyDown(key, index) ==
    /\ connected
    /\ index \in DOMAIN _values
    /\ lastOp' = Op("keyDown", index, key)
    /\ IF index \notin DOMAIN _inputs
          \/ key \notin {"ArrowLeft", "ArrowDown", "ArrowRight", "ArrowUp", "Home", "End"}
       THEN UNCHANGED <<_inputs, _values, snapshots>> /\ emitted' = <<>>
       ELSE /\ _inputs' = WriteInput(_inputs, index, KeyCandidate(key, _inputs[index]))
            /\ _values' = _updateValues(_inputs')
            /\ _dispatch(_values', TRUE, TRUE)
    /\ UNCHANGED <<config, interaction, mount>>

----------------------------------------------------------------------------
(* Lifecycle and configuration *)

\* connectedCallback(): addEventListener ignores a listener that is already
\* registered
connectedCallback ==
    /\ Remounts(page)
    /\ ~connected
    /\ connected' = TRUE
    /\ windowListeners' = windowListeners \cup {"pointermove", "pointerup"}
    /\ emitted' = <<>>
    /\ lastOp' = Op("connected", -1, "")
    /\ UNCHANGED <<config, interaction, snapshots, _inputs, _values>>

\* mutant: the element leaves the document with its window listeners in place
disconnectedCallback_leaking ==
    /\ Remounts(page)
    /\ connected
    /\ connected' = FALSE
    /\ UNCHANGED windowListeners
    /\ emitted' = <<>>
    /\ lastOp' = Op("disconnected", -1, "")
    /\ UNCHANGED <<config, interaction, snapshots, _inputs, _values>>

disconnectedCallback ==
    /\ Remounts(page)
    /\ connected
    /\ connected' = FALSE
    /\ windowListeners' = windowListeners \ {"pointermove", "pointerup"}
    /\ emitted' = <<>>
    /\ lastOp' = Op("disconnected", -1, "")
    /\ UNCHANGED <<config, interaction, snapshots, _inputs, _values>>

\* _onSlotChange(): the slotted inputs are initialized again
_onSlotChange ==
    /\ IF DOMAIN _inputs = {}
       THEN UNCHANGED <<_inputs, _values>>
       ELSE /\ _inputs' = _initializeInputs(_inputs)
            /\ _values' = _updateValues(_inputs')
    /\ emitted' = <<>>
    /\ lastOp' = Op("slotChange", -1, "")
    /\ UNCHANGED <<config, interaction, snapshots, mount>>

\* the page assigns the min property; willUpdate() ignores it
setMin(v) ==
    /\ Reconfigures(page)
    /\ v # min
    /\ min' = v
    /\ emitted' = <<>>
    /\ lastOp' = Op("setMin", -1, "")
    /\ UNCHANGED <<page, hostAttrs, max, stepBetween, list, _datalistOptions,
                   interaction, snapshots, _inputs, _values, mount>>

setMax(v) ==
    /\ Reconfigures(page)
    /\ v # max
    /\ max' = v
    /\ emitted' = <<>>
    /\ lastOp' = Op("setMax", -1, "")
    /\ UNCHANGED <<page, hostAttrs, min, stepBetween, list, _datalistOptions,
                   interaction, snapshots, _inputs, _values, mount>>

setStepBetween(v) ==
    /\ Reconfigures(page)
    /\ v # stepBetween
    /\ stepBetween' = v
    /\ emitted' = <<>>
    /\ lastOp' = Op("setStepBetween", -1, "")
    /\ UNCHANGED <<page, hostAttrs, min, max, list, _datalistOptions,
                   interaction, snapshots, _inputs, _values, mount>>

\* the page assigns the list property; willUpdate() parses the datalist
setList(id) ==
    /\ Reconfigures(page)
    /\ id # list
    /\ list' = id
    /\ _datalistOptions' = _parseDatalist(id, _datalistOptions)
    /\ emitted' = <<>>
    /\ lastOp' = Op("setList", -1, id)
    /\ UNCHANGED <<page, hostAttrs, min, max, stepBetween,
                   interaction, snapshots, _inputs, _values, mount>>

----------------------------------------------------------------------------
(* Specification *)

Init ==
    \E p \in Pages :
      \E c \in PageConfigs(p) :
        /\ page = p
        /\ hostAttrs = PageHostAttrs(p)
        /\ min = c[1]
        /\ max = c[2]
        /\ stepBetween = c[3]
        /\ list = c[4]
        /\ _datalistOptions = _parseDatalist(list, <<>>)
        /\ _inputs = _initializeInputs(Arr(PageSources(p)))
        /\ _values = _updateValues(_inputs)
        /\ _previousInputValues = Arr(<<>>)
        /\ _previousChangeValues = Arr(<<>>)
        /\ _activeThumbIndex = None
        /\ _pendingActivation = None
        /\ _containerRect = None
        /\ connected = TRUE
        /\ windowListeners = {"pointermove", "pointerup"}
        /\ emitted = <<>>
        /\ lastOp = Op("init", -1, "")

Next ==
    \/ \E index \in Indices(page), value \in RawValues(page) :
          setRangeValue(index, value)
    \/ \E val1 \in ButtonValues(page), val2 \in ButtonValues(page) :
          setValuesBtnClick(val1, val2)
    \/ \E button \in Buttons(page), thumbIndex \in Grabs(page) :
          PointerDownThumb(button, thumbIndex, ThumbX(thumbIndex))
    \/ \E button \in Buttons(page), clientX \in ClickXs(page) :
          PointerDownTrack(button, clientX)
    \/ \E clientX \in ClientXs(page) : PointerMove(clientX)
    \/ PointerUp
    \/ \E key \in Keys(page), index \in DOMAIN _values : KeyDown(key, index)
    \/ connectedCallback
    \/ disconnectedCallback
    \/ _onSlotChange
    \/ \E v \in PageMins(page) : setMin(v)
    \/ \E v \in PageMaxs(page) : setMax(v)
    \/ \E v \in PageSteps(page) : setStepBetween(v)
    \/ \E id \in PageLists(page) : setList(id)

Spec == Init /\ [][Next]_vars
----------------------------------------------------------------------------
(* Vocabulary of the properties *)

AdjustKeys == {"ArrowLeft", "ArrowDown", "ArrowRight", "ArrowUp", "Home", "End"}

\* the last handler stored a value in one of the inputs and recomputed _values
JustWrote ==
    \/ lastOp.op \in {"init", "slotChange"}
    \/ lastOp.op = "setRangeValue" /\ lastOp.index \in DOMAIN _inputs
    \/ lastOp.op = "pointerDownTrack" /\ lastOp.key = "" /\ lastOp.index \in DOMAIN _inputs
    \/ lastOp.op = "pointerMove" /\ lastOp.index \in DOMAIN _inputs
    \/ lastOp.op = "keyDown" /\ lastOp.key \in AdjustKeys

TickValues == Range(_datalistOptions)

----------------------------------------------------------------------------
(* C1: with min <= max, after any operation that writes handle values      *)
(* (initial recompute, setRangeValue, track click, drag move, keyboard     *)
(* adjustment) every handle value lies in [min, max].                      *)
C1_ValuesInDomain ==
    (min <= max /\ JustWrote) =>
        \A i \in DOMAIN _values : min <= _values[i] /\ _values[i] <= max

(* C2: in every reachable state every adjacent pair of handles keeps the   *)
(* gap, values[i+1] - values[i] >= stepBetween, unless a tick set is       *)
(* active and no tick value satisfies the bound.                           *)
C2_GapKept ==
    \A i \in DOMAIN _values :
        (i + 1) \in DOMAIN _values =>
            \/ _values[i + 1] - _values[i] >= stepBetween
            \/ /\ HasTicks
               /\ \/ ~\E t \in TickValues : t >= _values[i] + stepBetween
                  \/ ~\E t \in TickValues : t <= _values[i + 1] - stepBetween

(* C3 (as stated): on the demo page without ticks and with values [20,80], *)
(* a track click at the position of value 55 selects the handle at 20,     *)
(* moves it to 55 and emits one 'input' followed by one 'change'.          *)
C3_ClickAt55MovesHandleAt20 ==
    [][(/\ page = "demo" /\ ~HasTicks /\ _values = Arr(<<20, 80>>)
        /\ PointerDownTrack(0, 11))
       => (_values' = Arr(<<55, 80>>) /\ emitted' = <<"input", "change">>)]_vars

(* C3 (amended): that click selects the handle at 80, the closest one,     *)
(* and moves it to 55, giving [20,55]; it emits 'input' then 'change', one *)
(* each, each one left out only when the snapshot of its class already     *)
(* holds [20,55].                                                          *)
C3_ClickAt55MovesHandleAt80 ==
    [][(/\ page = "demo" /\ ~HasTicks /\ _values = Arr(<<20, 80>>)
        /\ PointerDownTrack(0, 11))
       => /\ _values' = Arr(<<20, 55>>)
          /\ emitted' =
               (IF _previousInputValues = Arr(<<20, 55>>) THEN <<>> ELSE <<"input">>)
               \o (IF _previousChangeValues = Arr(<<20, 55>>) THEN <<>> ELSE <<"change">>)]_vars

C3_Witness ==
    /\ page = "demo" /\ ~HasTicks
    /\ lastOp = Op("pointerDownTrack", 1, "")
    /\ _values = Arr(<<20, 55>>)
    /\ emitted = <<"input", "change">>

(* C4: a track click mapping to value v writes v, normalized, to the       *)
(* handle whose current value is closest to v, the lowest index among      *)
(* equally close ones, and writes no other handle.                         *)
ClosestLowest(v) ==
    CHOOSE k \in DOMAIN _values :
        /\ \A j \in DOMAIN _values : Abs(_values[k] - v) <= Abs(_values[j] - v)
        /\ \A j \in DOMAIN _values : j < k => Abs(_values[j] - v) > Abs(_values[k] - v)

C4_TrackClickWritesClosest ==
    [][\A x \in ClickXs(page) :
          (/\ lastOp'.op = "pointerDownTrack"
           /\ PointerDownTrack(0, x) /\ DOMAIN _values # {}) =>
             LET v == PointerValue(x, LayoutRect(page))
                 k == ClosestLowest(v)
             IN /\ _inputs'[k].value = _normalizeValue(v, k, _inputs)
                /\ \A j \in DOMAIN _inputs : j # k => _inputs'[j] = _inputs[j]]_vars

C4_Witness ==
    /\ lastOp = Op("pointerDownTrack", 0, "")
    /\ Cardinality(DOMAIN _values) = 3
    /\ _values[0] = _values[1] /\ _values[1] = _values[2]
    /\ emitted # <<>>

----------------------------------------------------------------------------
(* Sessions and notifications *)

\* The steps of the handlers; the test of lastOp' only spares the evaluation
\* of the handler on the steps of the other handlers.

\* a drag session is open: a thumb is active or an activation is pending
InSession == _activeThumbIndex # None \/ _pendingActivation # None

Count(seq, e) == Cardinality({k \in DOMAIN seq : seq[k] = e})

ThumbDownStep ==
    /\ lastOp'.op = "pointerDownThumb"
    /\ \E button \in Buttons(page), thumbIndex \in Grabs(page) :
        PointerDownThumb(button, thumbIndex, ThumbX(thumbIndex))

TrackClickStep ==
    /\ lastOp'.op = "pointerDownTrack"
    /\ \E clientX \in ClickXs(page) : PointerDownTrack(0, clientX)

MoveStep ==
    /\ lastOp'.op = "pointerMove"
    /\ \E clientX \in ClientXs(page) : PointerMove(clientX)

KeyAdjustStep ==
    /\ lastOp'.op = "keyDown"
    /\ \E key \in Keys(page) \cap AdjustKeys, index \in DOMAIN _inputs : KeyDown(key, index)

(* C5 (as stated): the pointer-up that ends a drag session and every       *)
(* keyboard adjustment emit exactly one 'change', as their last            *)
(* notification.                                                           *)
C5_ExactlyOneChange ==
    [][((InSession /\ PointerUp) \/ KeyAdjustStep) =>
          /\ Count(emitted', "change") = 1
          /\ emitted'[Len(emitted')] = "change"]_vars

(* C5 (amended): a session emits at most one 'change' and nothing after    *)
(* it. A thumb pointer-down emits nothing and a pointer-move emits no      *)
(* 'change' (and nothing at all outside a session); the pointer-up that    *)
(* ends the session emits one 'change' exactly when the values differ from *)
(* those of the previous 'change' notification, and closes the session; a  *)
(* keyboard adjustment emits 'input' then 'change', each exactly when the  *)
(* values differ from those of the previous notification of its class.     *)
C5_AtMostOneChangeLast ==
    [][/\ ThumbDownStep => emitted' = <<>>
       /\ MoveStep => (Count(emitted', "change") = 0 /\ (~InSession => emitted' = <<>>))
       /\ (InSession /\ PointerUp) =>
             /\ emitted' = (IF _values # _previousChangeValues THEN <<"change">> ELSE <<>>)
             /\ ~InSession'
       /\ KeyAdjustStep =>
             emitted' = (IF _values' # _previousInputValues THEN <<"input">> ELSE <<>>)
                        \o (IF _values' # _previousChangeValues THEN <<"change">> ELSE <<>>)]_vars

\* a drag that moved a handle has just ended with its 'change'
C5_Witness ==
    /\ lastOp = Op("pointerUp", -1, "session")
    /\ emitted = <<"change">>
    /\ _previousInputValues = _values
    /\ _values # _updateValues(_initializeInputs(_inputs))

(* C6: a track click, a drag pointer-move and a keyboard adjustment emit   *)
(* their notifications exactly when the step changed the value sequence:   *)
(* nothing when every handle value stays as it was, 'input' (and 'change'  *)
(* for the click and the key) when a value changed.                        *)
C6_NotifiesIffChanged ==
    [][/\ TrackClickStep =>
             emitted' = (IF _values' # _values THEN <<"input", "change">> ELSE <<>>)
       /\ (MoveStep /\ InSession') =>
             emitted' = (IF _values' # _values THEN <<"input">> ELSE <<>>)
       /\ KeyAdjustStep =>
             emitted' = (IF _values' # _values THEN <<"input", "change">> ELSE <<>>)]_vars

----------------------------------------------------------------------------
(* Algebra of the normalizer *)

\* candidate values around the domain
Candidates == (min - RawMargin)..(max + RawMargin)

(* C7: in every reachable state, for every handle index i and candidate v, *)
(* normalizing the normalized value gives the normalized value again.      *)
C7_NormalizeIdempotent ==
    \A i \in DOMAIN _inputs :
        \A v \in Candidates :
            _normalizeValue(_normalizeValue(v, i, _inputs), i, _inputs)
                = _normalizeValue(v, i, _inputs)

\* t keeps the gap against the current values of both neighbours of handle i
GapOk(i, t) ==
    /\ (i - 1) \in DOMAIN _values => t >= _values[i - 1] + stepBetween
    /\ (i + 1) \in DOMAIN _values => t <= _values[i + 1] - stepBetween

(* C8: with a tick set, setRangeValue(i, t) for a tick value t that keeps  *)
(* the gap against both current neighbours leaves values[i] = t.           *)
C8_TickRoundTrip ==
    [][\A i \in Indices(page) : \A t \in RawValues(page) :
          (/\ lastOp'.op = "setRangeValue"
           /\ setRangeValue(i, t)
           /\ HasTicks /\ i \in DOMAIN _values
           /\ t \in TickValues /\ GapOk(i, t)) => _values'[i] = t]_vars

(* C9: without a tick set, setRangeValue(i, v) with                        *)
(* v < values[i-1] + stepBetween leaves values[i] = values[i-1] +          *)
(* stepBetween when that value lies in [min, max] and does not exceed      *)
(* values[i+1] - stepBetween.                                              *)
C9_PushedToPrevPlusStep ==
    [][\A i \in Indices(page) : \A v \in RawValues(page) :
          (/\ lastOp'.op = "setRangeValue"
           /\ setRangeValue(i, v)
           /\ ~HasTicks
           /\ i \in DOMAIN _values /\ (i - 1) \in DOMAIN _values
           /\ v < _values[i - 1] + stepBetween
           /\ min <= _values[i - 1] + stepBetween
           /\ _values[i - 1] + stepBetween <= max
           /\ (i + 1) \in DOMAIN _values =>
                  _values[i - 1] + stepBetween <= _values[i + 1] - stepBetween)
          => _values'[i] = _values[i - 1] + stepBetween]_vars

\* the last handler wrote handle i (API, track click, drag move, key)
Wrote(i) ==
    /\ i \in DOMAIN _inputs
    /\ lastOp.index = i
    /\ \/ lastOp.op \in {"setRangeValue", "pointerMove"}
       \/ lastOp.op = "pointerDownTrack" /\ lastOp.key = ""
       \/ lastOp.op = "keyDown" /\ lastOp.key \in AdjustKeys

(* C10: with a tick set, the value stored for a written handle i that has  *)
(* a next neighbour is a tick value not exceeding                          *)
(* values[i+1] - stepBetween, whenever such a tick exists.                 *)
C10_TickBelowNext ==
    \A i \in DOMAIN _values :
        (/\ HasTicks /\ Wrote(i) /\ (i + 1) \in DOMAIN _values
         /\ \E t \in TickValues : t <= _values[i + 1] - stepBetween)
        => (_values[i] \in TickValues /\ _values[i] <= _values[i + 1] - stepBetween)

----------------------------------------------------------------------------
(* Overlapping handles *)

\* the handles standing on the value of handle t
Stack(t) == {i \in DOMAIN _values : _values[i] = _values[t]}

(* C11: a primary pointer-down on a handle that shares its value with      *)
(* another handle makes no handle active and records the indices of the    *)
(* stack and the pointer X; a later pointer-move within 2 px of that X     *)
(* keeps the record, and the first one farther than 2 px makes the highest *)
(* index of the record active when it lies to the right, the lowest when   *)
(* it lies to the left, and clears the record.                             *)
C11_OverlapResolvedByDirection ==
    [][/\ \A t \in Grabs(page) :
            (/\ lastOp'.op = "pointerDownThumb"
             /\ PointerDownThumb(0, t, ThumbX(t))
             /\ Cardinality(Stack(t)) > 1)
            => /\ _activeThumbIndex' = None
               /\ _pendingActivation' = Some([indices |-> Stack(t), initialX |-> ThumbX(t)])
       /\ \A x \in ClientXs(page) :
            (/\ lastOp'.op = "pointerMove"
             /\ PointerMove(x)
             /\ _pendingActivation # None)
            => LET indices == _pendingActivation[1].indices
                   dx == x - _pendingActivation[1].initialX
               IN IF dx > 2
                  THEN /\ _activeThumbIndex' = Some(MaxOf(indices))
                       /\ _pendingActivation' = None
                  ELSE IF dx < 0 - 2
                  THEN /\ _activeThumbIndex' = Some(MinOf(indices))
                       /\ _pendingActivation' = None
                  ELSE UNCHANGED <<_activeThumbIndex, _pendingActivation>>]_vars

\* a stack of two handles was pressed and a move to the right picked the
\* higher index
C11_Witness ==
    /\ lastOp = Op("pointerMove", 1, "right")
    /\ _activeThumbIndex = Some(1)
    /\ _pendingActivation = None

----------------------------------------------------------------------------
(* Duplicate suppression *)

(* C12: no two consecutive notifications of one class carry the same       *)
(* values. In every step each class fires at most once; a class that fires *)
(* carries values that differ from those of its previously fired           *)
(* notification and becomes the new reference; a class that does not fire  *)
(* keeps its reference.                                                    *)
C12_NoDuplicateNotification ==
    [][/\ Count(emitted', "input") <= 1
       /\ Count(emitted', "change") <= 1
       /\ IF Count(emitted', "input") = 1
          THEN _values' # _previousInputValues /\ _previousInputValues' = _values'
          ELSE _previousInputValues' = _previousInputValues
       /\ IF Count(emitted', "change") = 1
          THEN _values' # _previousChangeValues /\ _previousChangeValues' = _values'
          ELSE _previousChangeValues' = _previousChangeValues]_vars

\* ArrowRight on the last handle, already at max and already reported:
\* nothing is emitted
C12_Witness ==
    /\ lastOp = Op("keyDown", 1, "ArrowRight")
    /\ _values[1] = max
    /\ _previousChangeValues = _values
    /\ _previousInputValues = _values
    /\ emitted = <<>>

----------------------------------------------------------------------------
(* Tick stepping *)

\* the next tick above v, the last tick when there is none
NextAbove(v) ==
    IF \E t \in TickValues : t > v
    THEN MinOf({t \in TickValues : t > v}) ELSE MaxOf(TickValues)

\* the next tick below v, the first tick when there is none
NextBelow(v) ==
    IF \E t \in TickValues : t < v
    THEN MaxOf({t \in TickValues : t < v}) ELSE MinOf(TickValues)

(* C13: with a tick set active, the candidate an arrow key hands to the    *)
(* normalizer is the next tick above the handle's current value for        *)
(* ArrowRight/ArrowUp and the next tick below it for ArrowLeft/ArrowDown,  *)
(* the last/first tick at the ends.                                        *)
C13_ArrowStepsToAdjacentTick ==
    [][\A key \in Keys(page) \cap {"ArrowLeft", "ArrowDown", "ArrowRight", "ArrowUp"} :
         \A index \in DOMAIN _inputs :
            (/\ lastOp'.op = "keyDown"
             /\ HasTicks
             /\ KeyDown(key, index))
            => KeyCandidate(key, _inputs[index])
                 = IF key \in {"ArrowRight", "ArrowUp"}
                   THEN NextAbove(_values[index]) ELSE NextBelow(_values[index])]_vars

----------------------------------------------------------------------------
(* Public setter *)

C15_ChangeFiredOnEveryChange ==
    [][(_values' # _values /\ lastOp'.op # "pointerMove")
         => Count(emitted', "change") = 1]_vars

----------------------------------------------------------------------------
(* Configuration changes *)

\* the last step assigned min, max, stepBetween or list
JustReconfigured == lastOp.op \in {"setMin", "setMax", "setStepBetween", "setList"}

(* C16: right after min, max, stepBetween or the tick set changed (to a     *)
(* domain with min <= max), values is the normalization of the sources     *)
(* under the new configuration.                                            *)
C16_RecomputedOnReconfigure ==
    (JustReconfigured /\ min <= max) =>
        _values = [k \in DOMAIN _inputs |-> _normalizeValue(_inputs[k].value, k, _inputs)]

(* C17: after initialization and after every recompute, the source of      *)
(* every handle i holds values[i].                                         *)
C17_SourcesHoldValues ==
    JustWrote => \A i \in DOMAIN _values : _inputs[i].value = _values[i]

(* C18: when the configured list identifier does not resolve to a          *)
(* datalist, the tick set is empty: no snapping and no tick stepping       *)
(* applies.                                                                *)
C18_UnresolvedListHasNoTicks ==
    (list # "" /\ Document(page, list) = None) => ~HasTicks

----------------------------------------------------------------------------
(* Indices out of range *)

(* C19: setRangeValue with an index outside 0..N-1 changes nothing         *)
(* (values, sources, interaction state, snapshots) and emits nothing, and  *)
(* getRangeInput with such an index returns no input.                      *)
C19_OutOfRangeIndexIsNoOp ==
    [][\A index \in Indices(page) \ DOMAIN _inputs : \A value \in RawValues(page) :
          (/\ lastOp'.op = "setRangeValue"
           /\ lastOp'.index = index
           /\ setRangeValue(index, value))
          => /\ UNCHANGED <<_values, _inputs, interaction, snapshots, config>>
             /\ emitted' = <<>>
             /\ getRangeInput(index) = None]_vars

\* the setter was called with the index after the last handle
C19_Witness ==
    /\ lastOp.op = "setRangeValue"
    /\ lastOp.index = Cardinality(DOMAIN _inputs)
    /\ getRangeInput(lastOp.index) = None
    /\ DOMAIN _values # {}

----------------------------------------------------------------------------
(* Index order *)

(* C20: handle index i is bound to the source with the i-th smallest        *)
(* initial value, at initialization and ever after: in every reachable     *)
(* state the sources, by index, are in ascending order of their value      *)
(* attribute, as the sort leaves them.                                     *)
C20_IndicesAscendByInitialValue ==
    \A i \in DOMAIN _inputs :
        _inputs[i].valueAttr = sortedInputs(_inputs)[i].valueAttr
----------------------------------------------------------------------------
(* Keyboard jumps, sessions, snapping *)

\* the step of _handleKeyDown for `key` on the focused handle `index`
KeyStep(key, index) ==
    /\ lastOp'.op = "keyDown"
    /\ lastOp'.index = index
    /\ lastOp'.key = key
    /\ KeyDown(key, index)

\* the domain bound Home (End) stands for
JumpBound(key) == IF key = "Home" THEN min ELSE max

\* neither neighbour check of the normalization of `candidate` for handle
\* `index` replaces it: the neighbours are read from their sources
NoGapIntervenes(candidate, index) ==
    /\ (index - 1) \in DOMAIN _inputs =>
          candidate >= _inputs[index - 1].value + stepBetween
    /\ (index + 1) \in DOMAIN _inputs =>
          candidate <= _inputs[index + 1].value - stepBetween

(* C21 (as stated): Home (End) on a focused handle leaves the handle at    *)
(* normalize(min, index) (normalize(max, index)), and at min (max) itself  *)
(* when no tick set is active and no neighbour gap check intervenes.       *)
C21_HomeEndReachDomainBound ==
    [][\A index \in DOMAIN _inputs : \A key \in {"Home", "End"} :
          KeyStep(key, index) =>
             /\ _values'[index] = _normalizeValue(JumpBound(key), index, _inputs)
             /\ (~HasTicks /\ NoGapIntervenes(JumpBound(key), index))
                   => _values'[index] = JumpBound(key)]_vars

(* C21 (amended): Home (End) leaves the handle at normalize(min, index)    *)
(* (normalize(max, index)); that is min (max) itself when no tick set is   *)
(* active, no neighbour gap check intervenes and min (max) lies within the *)
(* bounds of the handle's own source; with a source bound in the way it is *)
(* that source bound.                                                      *)
C21_HomeEndReachSourceBound ==
    [][\A index \in DOMAIN _inputs : \A key \in {"Home", "End"} :
          KeyStep(key, index) =>
             /\ _values'[index] = _normalizeValue(JumpBound(key), index, _inputs)
             /\ (~HasTicks /\ NoGapIntervenes(JumpBound(key), index)
                 /\ thumbMin(_inputs[index]) <= thumbMax(_inputs[index]))
                   => _values'[index] =
                        MathMax(thumbMin(_inputs[index]),
                                MathMin(thumbMax(_inputs[index]), JumpBound(key)))]_vars

\* Home was pressed on a handle whose source has a min above the domain's:
\* the handle came down to the source's min
C21_Witness ==
    /\ lastOp.op = "keyDown" /\ lastOp.key = "Home"
    /\ ~HasTicks
    /\ thumbMin(_inputs[lastOp.index]) > min
    /\ _values[lastOp.index] = thumbMin(_inputs[lastOp.index])
    /\ emitted = <<"input", "change">>

(* C22: a track click starts no drag session: it leaves the active handle *)
(* and the pending activation as they were, and a pointer-move that        *)
(* follows a track click made in Idle changes no handle value and emits    *)
(* nothing.                                                                *)
C22_TrackClickStartsNoDrag ==
    [][/\ TrackClickStep => UNCHANGED <<_activeThumbIndex, _pendingActivation>>
       /\ (lastOp.op = "pointerDownTrack" /\ lastOp.key = "" /\ ~InSession /\ MoveStep)
             => /\ UNCHANGED <<_values, _inputs, snapshots>>
                /\ emitted' = <<>>
                /\ ~InSession']_vars

\* a track click made in Idle moved a handle, on a page whose pointer moves
C22_Witness ==
    /\ lastOp.op = "pointerDownTrack" /\ lastOp.key = ""
    /\ ~InSession
    /\ emitted = <<"input", "change">>
    /\ ClientXs(page) # {}

UpStep == lastOp'.op = "pointerUp" /\ PointerUp

(* C23: after a pointer-up, from any state, no handle is active and no     *)
(* activation is pending; the pointer-up emits at most a 'change', and     *)
(* only when a handle was active or an activation was pending: a           *)
(* pointer-up in Idle emits nothing and keeps both snapshots.              *)
C23_PointerUpEndsSession ==
    [][UpStep =>
          /\ _activeThumbIndex' = None
          /\ _pendingActivation' = None
          /\ emitted' \in {<<>>, <<"change">>}
          /\ emitted' = <<"change">> => InSession
          /\ ~InSession => (emitted' = <<>> /\ UNCHANGED snapshots)
          /\ UNCHANGED <<_values, _inputs>>]_vars

\* a pointer-up in Idle emitted nothing although the values were never
\* reported by a 'change'
C23_Witness ==
    /\ lastOp = Op("pointerUp", -1, "")
    /\ emitted = <<>>
    /\ ~shallowEqual(_values, _previousChangeValues)
    /\ ~InSession

(* C24: a primary pointer-down on a handle whose value no other handle    *)
(* shares makes that handle the active one at once, and no activation is   *)
(* pending afterwards.                                                     *)
C24_LoneHandleActiveAtOnce ==
    [][\A thumbIndex \in Grabs(page) :
          (/\ lastOp'.op = "pointerDownThumb"
           /\ lastOp'.index = thumbIndex
           /\ PointerDownThumb(0, thumbIndex, ThumbX(thumbIndex))
           /\ Stack(thumbIndex) = {thumbIndex})
          => /\ _activeThumbIndex' = Some(thumbIndex)
             /\ _pendingActivation' = None]_vars

(* C25: while an overlap activation is pending, a pointer-move at most     *)
(* 2 px away from the recorded X leaves no handle active, keeps the        *)
(* pending record, all handle values and both snapshots, and emits         *)
(* nothing.                                                                *)
C25_SmallMoveKeepsPending ==
    [][\A x \in ClientXs(page) :
          (/\ lastOp'.op = "pointerMove"
           /\ _pendingActivation # None
           /\ Abs(x - _pendingActivation[1].initialX) <= 2
           /\ PointerMove(x))
          => /\ _activeThumbIndex' = None
             /\ UNCHANGED <<_pendingActivation, _values, _inputs, snapshots>>
             /\ emitted' = <<>>]_vars

----------------------------------------------------------------------------
(* Ticks that cannot keep the gap *)

\* the tick closest to v, the first such option of the datalist
NearestTick(v) ==
    LET best == {k \in DOMAIN _datalistOptions :
                   \A j \in DOMAIN _datalistOptions :
                       Abs(_datalistOptions[k] - v) <= Abs(_datalistOptions[j] - v)}
    IN _datalistOptions[MinOf(best)]

ClampTo(lo, hi, v) == MathMax(lo, MathMin(hi, v))

\* the bounds the neighbours of handle i set, read from their sources
PrevBound(i) == _inputs[i - 1].value + stepBetween
NextBound(i) == _inputs[i + 1].value - stepBetween

\* the value the normalization of v for handle i holds before the check
\* against the next neighbour
BeforeNextCheck(v, i) ==
    LET s == NearestTick(v)
    IN IF (i - 1) \in DOMAIN _inputs /\ s < PrevBound(i)
          /\ \E t \in TickValues : t >= PrevBound(i)
       THEN MinOf({t \in TickValues : t >= PrevBound(i)})
       ELSE s

\* no tick satisfies the bound of the previous (next) neighbour of handle i
\* that the normalization of v runs into
PrevUnsatisfiable(v, i) ==
    /\ HasTicks
    /\ (i - 1) \in DOMAIN _inputs
    /\ NearestTick(v) < PrevBound(i)
    /\ ~\E t \in TickValues : t >= PrevBound(i)

NextUnsatisfiable(v, i) ==
    /\ HasTicks
    /\ (i + 1) \in DOMAIN _inputs
    /\ BeforeNextCheck(v, i) > NextBound(i)
    /\ ~\E t \in TickValues : t <= NextBound(i)

(* C26 (as stated): with a tick set active, when no tick satisfies the     *)
(* bound of the previous neighbour the normalization keeps the snapped     *)
(* value through that step, and when no tick satisfies the bound of the    *)
(* next neighbour it keeps the value it had before that step; the result   *)
(* is that value clamped to [min, max], whatever the gap.                  *)
C26_UnsatisfiableGapKeepsValue ==
    \A i \in DOMAIN _inputs :
        \A v \in Candidates :
            /\ (min <= max /\ PrevUnsatisfiable(v, i))
                 => /\ BeforeNextCheck(v, i) = NearestTick(v)
                    /\ ((i + 1) \in DOMAIN _inputs => NearestTick(v) <= NextBound(i))
                          => _normalizeValue(v, i, _inputs)
                               = ClampTo(min, max, NearestTick(v))
            /\ (min <= max /\ NextUnsatisfiable(v, i))
                 => _normalizeValue(v, i, _inputs)
                      = ClampTo(min, max, BeforeNextCheck(v, i))

(* C26 (amended): the same, the kept value being clamped to the range of   *)
(* the handle, [max(min, source min), min(max, source max)].               *)
C26_UnsatisfiableGapKeepsValueInRange ==
    \A i \in DOMAIN _inputs :
        \A v \in Candidates :
            /\ PrevUnsatisfiable(v, i)
                 => /\ BeforeNextCheck(v, i) = NearestTick(v)
                    /\ ((i + 1) \in DOMAIN _inputs => NearestTick(v) <= NextBound(i))
                          => _normalizeValue(v, i, _inputs)
                               = ClampTo(thumbMin(_inputs[i]), thumbMax(_inputs[i]),
                                         NearestTick(v))
            /\ NextUnsatisfiable(v, i)
                 => _normalizeValue(v, i, _inputs)
                      = ClampTo(thumbMin(_inputs[i]), thumbMax(_inputs[i]),
                                BeforeNextCheck(v, i))

\* the setter stored a value below the bound of the previous neighbour,
\* which no tick reaches
C26_Witness ==
    /\ lastOp.op = "setRangeValue"
    /\ HasTicks
    /\ lastOp.index \in DOMAIN _inputs /\ (lastOp.index - 1) \in DOMAIN _inputs
    /\ _inputs[lastOp.index].value < PrevBound(lastOp.index)
    /\ ~\E t \in TickValues : t >= PrevBound(lastOp.index)

----------------------------------------------------------------------------
(* Snapping *)

\* positions of the datalist's options that are closest to v
ClosestOptions(v) ==
    {k \in DOMAIN _datalistOptions :
        \A j \in DOMAIN _datalistOptions :
            Abs(_datalistOptions[k] - v) <= Abs(_datalistOptions[j] - v)}

(* C27: with a non-empty tick set snapping gives a tick at the least       *)
(* distance from the candidate, and among equally close ticks the one that *)
(* comes first in the datalist; with an empty tick set it gives the        *)
(* candidate itself.                                                       *)
C27_SnapsToNearestFirst ==
    \A v \in Candidates :
        IF Len(_datalistOptions) > 0
        THEN /\ list # ""
             /\ _snapToDataList(v) \in TickValues
             /\ \A t \in TickValues : Abs(_snapToDataList(v) - v) <= Abs(t - v)
             /\ \A k \in ClosestOptions(v) :
                   \E j \in 1..k : _datalistOptions[j] = _snapToDataList(v)
        ELSE _snapToDataList(v) = v

\* a write happened under a tick set in which some candidate lies midway
\* between two ticks and snaps to the higher one, listed first
C27_Witness ==
    /\ JustWrote /\ lastOp.op # "init"
    /\ HasTicks
    /\ \E v \in Candidates : \E t \in TickValues :
          /\ t < _snapToDataList(v)
          /\ Abs(t - v) = Abs(_snapToDataList(v) - v)

----------------------------------------------------------------------------
(* Ignored events *)

(* C28: a pointer-down with a button other than the primary one, on a      *)
(* handle or on the track, changes no handle value, no source, neither the *)
(* active handle nor the pending activation nor a snapshot, and emits      *)
(* nothing.                                                                *)
C28_SecondaryButtonIgnored ==
    [][\A button \in Buttons(page) \ {0} :
          (\/ /\ lastOp'.op = "pointerDownThumb"
              /\ \E thumbIndex \in Grabs(page) :
                    PointerDownThumb(button, thumbIndex, ThumbX(thumbIndex))
           \/ /\ lastOp'.op = "pointerDownTrack"
              /\ \E clientX \in ClickXs(page) : PointerDownTrack(button, clientX))
          => /\ UNCHANGED <<_values, _inputs, interaction, snapshots>>
             /\ emitted' = <<>>]_vars

\* the secondary button went down on a lone handle in Idle, and the widget
\* is still in Idle
C28_Witness ==
    /\ lastOp.op = "pointerDownThumb" /\ lastOp.key = "secondary"
    /\ Stack(lastOp.index) = {lastOp.index}
    /\ ~InSession
    /\ ~shallowEqual(_values, _previousChangeValues)

(* C29: a key other than the four arrows, Home and End pressed on a       *)
(* focused handle changes no handle value, no source and no snapshot, and  *)
(* emits nothing.                                                          *)
C29_OtherKeysIgnored ==
    [][\A key \in Keys(page) \ AdjustKeys : \A index \in DOMAIN _values :
          KeyStep(key, index)
          => /\ UNCHANGED <<_values, _inputs, snapshots, interaction>>
             /\ emitted' = <<>>]_vars

\* Tab was pressed on a handle whose source holds another value than the
\* handle, with values no 'change' has reported
C29_Witness ==
    /\ lastOp.op = "keyDown" /\ lastOp.key = "Tab"
    /\ _inputs[lastOp.index].value # _values[lastOp.index]
    /\ ~shallowEqual(_values, _previousChangeValues)
    /\ emitted = <<>>

----------------------------------------------------------------------------
(* Listeners and the document *)

(* C30: the element listens to pointermove and pointerup on the window     *)
(* exactly while it is in the document: every mount registers both         *)
(* listeners and every unmount removes both, and while it is out of the    *)
(* document no pointer-move and no pointer-up changes handle values,       *)
(* interaction state or snapshots.                                         *)
C30_ListensExactlyWhileMounted ==
    /\ [](windowListeners = IF connected THEN {"pointermove", "pointerup"} ELSE {})
    /\ [][(~connected /\ (MoveStep \/ UpStep))
            => UNCHANGED <<_values, _inputs, interaction, snapshots>>]_vars

\* the element was taken out of the document in the middle of a drag
C30_Witness ==
    /\ lastOp.op = "disconnected"
    /\ ~connected
    /\ windowListeners = {}
    /\ _activeThumbIndex # None

----------------------------------------------------------------------------
(* Invariants of the interaction state and of the values *)

(* C31: in every reachable state, whatever the order of pointer-downs,     *)
(* pointer-moves and pointer-ups, a handle is active only when no overlap  *)
(* activation is pending.                                                  *)
C31_ActiveExcludesPending ==
    _activeThumbIndex # None => _pendingActivation = None

\* the page slots its inputs in ascending order of their value attributes
SourcesAscend ==
    \A k \in 1..(Len(PageSources(page)) - 1) :
        PageSources(page)[k].valueAttr <= PageSources(page)[k + 1].valueAttr

(* C32: with stepBetween >= 0, min <= max and sources slotted in ascending *)
(* order, no handle value exceeds the value of the next handle, in every   *)
(* reachable state, with or without a tick set.                            *)
C32_ValuesNeverCross ==
    (stepBetween >= 0 /\ min <= max /\ SourcesAscend) =>
        \A i \in DOMAIN _values :
            (i + 1) \in DOMAIN _values => _values[i] <= _values[i + 1]

(* C33: in every reachable state, setRangeValue(index, v) leaves the value *)
(* of every handle other than `index` as it was.                           *)
C33_WriteMovesOneHandle ==
    [][\A index \in Indices(page) \cap DOMAIN _inputs :
          (/\ lastOp'.op = "setRangeValue"
           /\ lastOp'.index = index
           /\ \E value \in RawValues(page) : setRangeValue(index, value))
          => \A j \in DOMAIN _values : j # index => _values'[j] = _values[j]]_vars

(* C34: in every reachable state, with or without a tick set, ArrowRight   *)
(* and ArrowUp never lower the value of the focused handle, ArrowLeft and  *)
(* ArrowDown never raise it.                                               *)
C34_ArrowsKeepDirection ==
    [][\A index \in DOMAIN _inputs :
          /\ \A key \in Keys(page) \cap {"ArrowRight", "ArrowUp"} :
                KeyStep(key, index) => _values'[index] >= _values[index]
          /\ \A key \in Keys(page) \cap {"ArrowLeft", "ArrowDown"} :
                KeyStep(key, index) => _values'[index] <= _values[index]]_vars

\* every tick lies in the domain
TicksInDomain == \A t \in TickValues : min <= t /\ t <= max

(* C35: with a non-empty tick set active and every tick in [min, max],     *)
(* every handle value is a tick after any operation that writes values     *)
(* (initial recompute, setRangeValue, track click, drag move, keyboard     *)
(* adjustment).                                                            *)
C35_ValuesAreTicks ==
    (HasTicks /\ TicksInDomain /\ JustWrote) =>
        \A i \in DOMAIN _values : _values[i] \in TickValues

\* every tick lies in the range of every handle
TicksInRanges ==
    \A i \in DOMAIN _inputs : \A t \in TickValues :
        thumbMin(_inputs[i]) <= t /\ t <= thumbMax(_inputs[i])

(* C35 (amended): with a non-empty tick set active and every tick within   *)
(* the range of every handle, [max(min, source min), min(max, source       *)
(* max)], every handle value is a tick after any operation that writes     *)
(* values.                                                                 *)
C35_ValuesAreTicksInRanges ==
    (HasTicks /\ TicksInRanges /\ JustWrote) =>
        \A i \in DOMAIN _values : _values[i] \in TickValues

\* a key press or a setter call moved a handle, under a tick set the sources
\* do not all sit on
C35_Witness ==
    /\ HasTicks /\ TicksInRanges
    /\ lastOp.op \in {"keyDown", "setRangeValue", "pointerMove", "pointerDownTrack"}
    /\ JustWrote
    /\ \E i \in DOMAIN _inputs : _inputs[i].value \notin TickValues
    /\ \E i \in DOMAIN _values : \E j \in DOMAIN _values : _values[i] # _values[j]

(* C36: no drag session survives a teardown: once the widget has been      *)
(* unmounted with a handle active or an activation pending and mounted     *)
(* again, a pointer-move that no new pointer-down precedes changes no      *)
(* handle value and emits no notification.                                 *)
C36_NoSessionSurvivesTeardown ==
    [][(lastOp.op = "connected" /\ MoveStep) =>
          (UNCHANGED <<_values, _inputs>> /\ emitted' = <<>>)]_vars

SetPairStep(a, b) ==
    /\ lastOp'.op = "setValuesBtn"
    /\ setValuesBtnClick(a, b)

(* C37: setting an ascending pair in index order reaches that pair: with   *)
(* two handles and no tick set, from any reachable state,                  *)
(* setRangeValue(0, a) followed by setRangeValue(1, b) with min <= a,      *)
(* a + stepBetween <= b and b <= max leaves values = [a, b].               *)
C37_AscendingPairIsReached ==
    [][\A a \in ButtonValues(page), b \in ButtonValues(page) :
          (/\ SetPairStep(a, b)
           /\ DOMAIN _inputs = {0, 1} /\ ~HasTicks
           /\ a <= b /\ min <= a /\ a + stepBetween <= b /\ b <= max)
          => (_values'[0] = a /\ _values'[1] = b)]_vars

(* C38: with no tick set and stepBetween = 0, after a click on the track    *)
(* background that maps to a value v in [min, max], at least one handle    *)
(* has the value v, also when several handles overlap.                     *)
C38_TrackClickBringsAHandle ==
    [][\A x \in ClickXs(page) :
          (/\ lastOp'.op = "pointerDownTrack"
           /\ PointerDownTrack(0, x) /\ DOMAIN _values # {}
           /\ ~HasTicks /\ stepBetween = 0
           /\ min <= PointerValue(x, LayoutRect(page))
           /\ PointerValue(x, LayoutRect(page)) <= max)
          => \E i \in DOMAIN _values : _values'[i] = PointerValue(x, LayoutRect(page))]_vars

\* the range of handle i: the domain narrowed by the bounds its source carries
OwnLow(i) == IF _inputs[i].min # None /\ _inputs[i].min[1] > min THEN _inputs[i].min[1] ELSE min
OwnHigh(i) == IF _inputs[i].max # None /\ _inputs[i].max[1] < max THEN _inputs[i].max[1] ELSE max

(* C39: a handle whose source carries a min or max of its own stays inside *)
(* both ranges: after any write its value lies in [max(min, source min),   *)
(* min(max, source max)] whenever that interval is not empty.              *)
C39_ValuesInOwnRange ==
    JustWrote =>
        \A i \in DOMAIN _values :
            ((_inputs[i].min # None \/ _inputs[i].max # None) /\ OwnLow(i) <= OwnHigh(i))
                => (OwnLow(i) <= _values[i] /\ _values[i] <= OwnHigh(i))

\* on a page whose first input has a max of its own, a setter call whose
\* value snaps to a tick above that max leaves the handle at the input's max
C39_Witness ==
    /\ lastOp.op = "setRangeValue" /\ ~Reconfigures(page)
    /\ HasTicks
    /\ \E i \in DOMAIN _values :
          /\ lastOp.index = i
          /\ _inputs[i].max # None /\ _inputs[i].max[1] < max
          /\ OwnLow(i) <= OwnHigh(i)
          /\ _values[i] = _inputs[i].max[1]
          /\ _values[i] \notin TickValues

====
